---- MODULE Spec2Model ----
(***************************************************************************)
(* EcoChef: the App component (view state machine, camera capture session, *)
(* image ingestion, ingredient roster, recipe request and recipe views)    *)
(* and the provider gateway (detectIngredientsFromImages, suggestRecipes). *)
(* One action is one event handler or one promise continuation, followed   *)
(* by React's re-render and the effects that re-render runs (cleanup of    *)
(* the previous effect, then the new effect), up to the next quiescent     *)
(* state.                                                                  *)
(***************************************************************************)
EXTENDS Integers, Sequences, FiniteSets, TLC

\* ---------------------------------------------------------------- bounds
MaxStreams    == 2   \* camera streams acquired or being acquired in one run
MaxCaptures   == 2   \* frames captured in one run
MaxIngestions == 2   \* ingestions (file read, detection call) in progress at once
MaxRoster     == 2   \* entries in the roster
MaxClock      == 1   \* readings of Date.now() after the first
MaxSuggestions == 2  \* suggestRecipes calls in flight at once

\* ------------------------------------------------------------ vocabulary
Views == {"HOME", "CAMERA", "INGREDIENTS", "RECIPES", "RECIPE_DETAIL"}

NoStream == 0        \* stream === null

\* Characters of ingredient names; a name is a sequence of characters.
Upper == [c \in {"t", "T", "o", "1", " "} |->
            IF c = "t" THEN "T" ELSE IF c = "o" THEN "O" ELSE c]

\* Detection responses of the camera/ingestion specification.
DetectedNames == { <<>>, << <<"t", "o">> >>, << <<"t">>, <<"T", "o">> >> }

\* Files offered to the file input: the data URL readAsDataURL produces,
\* as its comma-separated parts.  NoFile is event.target.files being empty.
NoFile == <<>>
Files  == { <<"data:image/jpeg;base64", 101>> }
Undefined == 0       \* split(',')[1] of a string without a comma

\* Texts typed in the manual-entry input.
Texts == { <<>>, <<" ">>, <<" ", "o", " ">> }

\* An id no roster entry has: the clock never reads -1.
NoSuchId == <<"ing", -1, 0>>

\* DietaryPreference, types.ts:1-5.
Preferences == {"Ninguna", "Vegetariano", "Vegano"}

\* API_KEY_OPENAI set: OpenAI serves the calls; otherwise Gemini.
Providers == {"openai", "gemini"}

\* The items of a provider's recipe list.  `fields` tells how much of the
\* Recipe shape (types.ts:13-22) the item carries: "all" its fields, "some"
\* of them, or "none" (the item is null or not an object).
RecipeItems == [title : {"a", "b"}, fields : {"all"}]

\* The recipe lists a well-formed response carries.
RecipeBatches == { <<>> } \cup { <<r>> : r \in RecipeItems }
                   \cup { <<[title |-> "a", fields |-> "all"],
                            [title |-> "b", fields |-> "all"]>> }

\* selectedRecipe === null
NoRecipe == [id |-> <<>>, title |-> "", fields |-> "none"]

VARIABLES
  view, loading, loadingMessage,        \* useState, part_000:25-27
  ingredients,                          \* useState, part_000:30
  recipes, selectedRecipe, dietaryPreference,   \* useState, part_000:31-33
  newIngredientText,                    \* useState, part_000:34
  capturedImages, stream,               \* useState, part_000:37-38
  live,            \* streams whose tracks have not been stopped
  acquired,        \* number of streams getUserMedia has resolved with
  pendingAcq,      \* getUserMedia promises not yet settled
  keyStream,       \* `stream` as closed over by the registered handleKeyDown
  videoSrc,        \* videoRef.current.srcObject
  hasFrame,        \* videoRef.current has a decoded frame (videoWidth > 0)
  captureCount,    \* frames captured so far (names the next image)
  detectCalls,     \* detectIngredientsFromImages calls in flight
  pendingReads,    \* FileReader reads in flight
  now,             \* Date.now()
  sessionCaptures, \* history: successful captures since the last startCamera
  alert,           \* the message the last step passed to alert(), or NoAlert
  settled,         \* history: the caller of the processImages call the last
                   \* step settled ("camera", "file"), or NoCall
  suggestCalls,    \* suggestRecipes calls in flight
  provider,        \* the provider API_KEY_OPENAI selects, part_001:4
  gw               \* the last call of a gateway operation and its outcome

uiVars     == <<view, loading, loadingMessage>>
recipeVars == <<recipes, selectedRecipe, dietaryPreference, suggestCalls>>
gatewayVars == <<provider, gw>>
cameraVars == <<capturedImages, stream, live, acquired, pendingAcq, keyStream,
                videoSrc, hasFrame, captureCount, sessionCaptures>>
ioVars     == <<detectCalls, pendingReads>>
vars == <<view, loading, loadingMessage, ingredients, recipes, selectedRecipe,
          dietaryPreference, newIngredientText, capturedImages, stream, live,
          acquired, pendingAcq, keyStream, videoSrc, hasFrame, captureCount,
          detectCalls, pendingReads, now, sessionCaptures, alert, settled,
          suggestCalls, provider, gw>>

\* The messages of alert(), part_000:89, 107, 207 and 219.
NoCall         == ""
NoAlert        == ""
DetectionAlert == "Ocurrio un error. Intentalo de nuevo."
CameraAlert    == "No pudimos acceder a la camara. Revisa los permisos."
ValidationAlert == "Anade al menos un ingrediente."
SuggestionAlert == "Error al generar recetas. Intentalo mas tarde."

\* No gateway operation has been called.
NoGatewayCall == [op |-> "none", response |-> <<>>, at |-> 0,
                  outcome |-> [kind |-> "none", t |-> "", items |-> <<>>,
                               msg |-> ""]]

\* The component's state after its first render; no call is in flight.
InitApp ==
  /\ view = "HOME"
  /\ loading = FALSE
  /\ loadingMessage = ""
  /\ ingredients = <<>>
  /\ recipes = <<>>
  /\ selectedRecipe = NoRecipe
  /\ dietaryPreference = "Ninguna"
  /\ newIngredientText = <<>>
  /\ capturedImages = <<>>
  /\ stream = NoStream
  /\ live = {}
  /\ acquired = 0
  /\ pendingAcq = 0
  /\ keyStream = NoStream
  /\ videoSrc = NoStream
  /\ hasFrame = FALSE
  /\ captureCount = 0
  /\ detectCalls = <<>>
  /\ pendingReads = <<>>
  /\ now = 0
  /\ sessionCaptures = <<>>
  /\ alert = NoAlert
  /\ settled = NoCall
  /\ suggestCalls = 0
  /\ gw = NoGatewayCall

\* A build without API_KEY_OPENAI: Gemini serves the calls.
Init == InitApp /\ provider = "gemini"

\* Either build.
InitAnyProvider == InitApp /\ provider \in Providers

\* ------------------------------------------------------- pure functions
RemoveAt(s, i) == SubSeq(s, 1, i - 1) \o SubSeq(s, i + 1, Len(s))

\* Mutant of capitalize: the name is kept as detected.
capitalize_asDetected(name) == name

\* name.charAt(0).toUpperCase() + name.slice(1)
capitalize(name) ==
  IF name = <<>> THEN <<>> ELSE <<Upper[Head(name)]>> \o Tail(name)

\* detectedNames.map((name, idx) => ({id: `ing-${Date.now()}-${idx}`, ...}))
newIngredients(names, t) ==
  [i \in 1..Len(names) |->
     [id |-> <<"ing", t, i - 1>>, name |-> capitalize(names[i]),
      isPriority |-> FALSE]]

\* base64String.split(',')[1]
base64Data(dataUrl) ==
  IF Len(dataUrl) >= 2 THEN dataUrl[2] ELSE Undefined

\* String.prototype.trim
RECURSIVE trimStart(_)
trimStart(s) ==
  IF s # <<>> /\ Head(s) = " " THEN trimStart(Tail(s)) ELSE s
RECURSIVE trimEnd(_)
trimEnd(s) ==
  IF s # <<>> /\ s[Len(s)] = " " THEN trimEnd(SubSeq(s, 1, Len(s) - 1)) ELSE s
trim(s) == trimEnd(trimStart(s))

\* (r, index) => ({...r, id: `recipe-<provider>-${Date.now()}-${index}`}),
\* part_001:133-136 and part_001:230-233.
addIds(p, items, t) ==
  [i \in 1..Len(items) |->
     [id |-> <<"recipe", p, t, i - 1>>, title |-> items[i].title,
      fields |-> items[i].fields]]

\* ------------------------------------------------------- camera helpers
\* stopCamera as a closure over `stream` = s; cur is the stream state now.
stopCamera(s, cur, lv) ==
  IF s # NoStream
    THEN [stream |-> NoStream, live |-> lv \ {s}]
    ELSE [stream |-> cur, live |-> lv]

\* The cleanup of the stream effect registered by the render of (v, s).
streamEffectCleanup(v, s, cur, lv) ==
  IF v # "CAMERA" THEN stopCamera(s, cur, lv)
                  ELSE [stream |-> cur, live |-> lv]

\* The keyboard effect, deps [view]: re-registers handleKeyDown when the
\* view changed, closing over the stopCamera of that render.
keyboardEffect(v0, v1, s1, kb) ==
  IF v1 = v0 THEN kb
  ELSE IF v1 = "CAMERA" THEN s1 ELSE NoStream

\* The <video> element after the render of (v1, s1) that follows (v0, s0).
videoAfter(v0, s0, v1, s1, vs, hf) ==
  IF v1 # "CAMERA" THEN [src |-> NoStream, frame |-> FALSE]
  ELSE LET base == IF v0 # "CAMERA" THEN [src |-> NoStream, frame |-> FALSE]
                                    ELSE [src |-> vs, frame |-> hf]
       IN IF s1 # NoStream /\ (v0 # v1 \/ s0 # s1) /\ base.src # s1
            THEN [src |-> s1, frame |-> FALSE]
            ELSE base

\* Re-render with state (v1, s1) after the render of (v0, s0), and the
\* renders its effects cause, until nothing changes.
RECURSIVE Commit(_, _, _, _, _, _, _, _)
Commit(v0, s0, v1, s1, lv, kb, vs, hf) ==
  IF v0 = v1 /\ s0 = s1
    THEN [stream |-> s1, live |-> lv, key |-> kb, src |-> vs, frame |-> hf]
    ELSE LET c   == streamEffectCleanup(v0, s0, s1, lv)
             vid == videoAfter(v0, s0, v1, s1, vs, hf)
         IN Commit(v1, s1, v1, c.stream, c.live,
                   keyboardEffect(v0, v1, s1, kb), vid.src, vid.frame)

\* The state after the handler left view = v1 and stream = s1, tracks lv.
Render(v1, s1, lv) ==
  LET r == Commit(view, stream, v1, s1, lv, keyStream, videoSrc, hasFrame)
  IN /\ view' = v1
     /\ stream' = r.stream
     /\ live' = r.live
     /\ keyStream' = r.key
     /\ videoSrc' = r.src
     /\ hasFrame' = r.frame

\* ----------------------------------------------------- image ingestion
\* processImages up to its await: setLoading(true), the status message and
\* the detectIngredientsFromImages call.
processImagesStart(images, caller) ==
  /\ loading' = TRUE
  /\ loadingMessage' = "Detectando ingredientes..."
  /\ detectCalls' = Append(detectCalls, [images |-> images, from |-> caller])

\* handleFileUpload, part_000:48-71 (the file input of the Home view).
\* new FileReader() and readAsDataURL(file) do not throw for a File, so the
\* catch block is never entered; a read error arrives through onloadend.
HandleFileUpload(file) ==
  /\ view = "HOME"
  /\ IF file = NoFile
       THEN UNCHANGED <<loading, loadingMessage, pendingReads>>
       ELSE /\ Len(pendingReads) + Len(detectCalls) < MaxIngestions
            /\ loading' = TRUE
            /\ loadingMessage' = "Analizando imagen..."
            /\ pendingReads' = Append(pendingReads, file)
  /\ alert' = NoAlert
  /\ settled' = NoCall
  /\ UNCHANGED <<view, ingredients, newIngredientText, detectCalls, now>>
  /\ UNCHANGED <<recipeVars, gatewayVars, cameraVars>>

\* reader.onloadend after a successful read: reader.result is the data URL.
FileReadLoaded(i) ==
  /\ i \in 1..Len(pendingReads)
  /\ processImagesStart(<<base64Data(pendingReads[i])>>, "file")
  /\ pendingReads' = RemoveAt(pendingReads, i)
  /\ alert' = NoAlert
  /\ settled' = NoCall
  /\ UNCHANGED <<view, ingredients, newIngredientText, now>>
  /\ UNCHANGED <<recipeVars, gatewayVars, cameraVars>>

\* reader.onloadend after a failed read: reader.result is null, so
\* base64String.split throws inside the async callback; the rejection is
\* unhandled, the catch of handleFileUpload has long been left.
FileReadFailed(i) ==
  /\ i \in 1..Len(pendingReads)
  /\ pendingReads' = RemoveAt(pendingReads, i)
  /\ alert' = NoAlert
  /\ settled' = NoCall
  /\ UNCHANGED <<uiVars, ingredients, newIngredientText, detectCalls, now>>
  /\ UNCHANGED <<recipeVars, gatewayVars, cameraVars>>

\* Mutant of ProcessImagesResolved: the roster is set to the new batch
\* alone (setIngredients(newIngredients)), the entries held are lost.
ProcessImagesResolved_replaces(i, names) ==
  /\ i \in 1..Len(detectCalls)
  /\ Len(ingredients) + Len(names) <= MaxRoster
  /\ detectCalls' = RemoveAt(detectCalls, i)
  /\ ingredients' = newIngredients(names, now)
  /\ Render("INGREDIENTS", stream, live)
  /\ loading' = FALSE
  /\ alert' = NoAlert
  /\ settled' = detectCalls[i].from
  /\ UNCHANGED <<loadingMessage, newIngredientText, pendingReads, now>>
  /\ UNCHANGED <<capturedImages, acquired, pendingAcq, captureCount,
                 sessionCaptures, recipeVars, gatewayVars>>

\* Mutant of ProcessImagesResolved: the hand-off also empties the buffer.
ProcessImagesResolved_clearsBuffer(i, names) ==
  /\ i \in 1..Len(detectCalls)
  /\ Len(ingredients) + Len(names) <= MaxRoster
  /\ detectCalls' = RemoveAt(detectCalls, i)
  /\ ingredients' = ingredients \o newIngredients(names, now)
  /\ Render("INGREDIENTS", stream, live)
  /\ loading' = FALSE
  /\ capturedImages' = <<>>
  /\ alert' = NoAlert
  /\ settled' = detectCalls[i].from
  /\ UNCHANGED <<loadingMessage, newIngredientText, pendingReads, now>>
  /\ UNCHANGED <<acquired, pendingAcq, captureCount, sessionCaptures,
                 recipeVars, gatewayVars>>

\* processImages after its await resolved with names, part_000:80-87,91.
ProcessImagesResolved(i, names) ==
  /\ i \in 1..Len(detectCalls)
  /\ Len(ingredients) + Len(names) <= MaxRoster
  /\ detectCalls' = RemoveAt(detectCalls, i)
  /\ ingredients' = ingredients \o newIngredients(names, now)
  /\ Render("INGREDIENTS", stream, live)
  /\ loading' = FALSE
  /\ alert' = NoAlert
  /\ settled' = detectCalls[i].from
  /\ UNCHANGED <<loadingMessage, newIngredientText, pendingReads, now>>
  /\ UNCHANGED <<capturedImages, acquired, pendingAcq, captureCount,
                 sessionCaptures, recipeVars, gatewayVars>>

\* Mutant of ProcessImagesRejected: no finally block, loading stays set.
ProcessImagesRejected_noFinally(i) ==
  /\ i \in 1..Len(detectCalls)
  /\ detectCalls' = RemoveAt(detectCalls, i)
  /\ alert' = DetectionAlert
  /\ settled' = detectCalls[i].from
  /\ UNCHANGED <<uiVars, ingredients, newIngredientText, pendingReads, now>>
  /\ UNCHANGED <<recipeVars, gatewayVars, cameraVars>>

\* processImages after its await rejected, part_000:88-92.
ProcessImagesRejected(i) ==
  /\ i \in 1..Len(detectCalls)
  /\ detectCalls' = RemoveAt(detectCalls, i)
  /\ loading' = FALSE
  /\ alert' = DetectionAlert
  /\ settled' = detectCalls[i].from
  /\ UNCHANGED <<view, loadingMessage, ingredients, newIngredientText,
                 pendingReads, now>>
  /\ UNCHANGED <<recipeVars, gatewayVars, cameraVars>>

\* ------------------------------------------------------ capture session
\* Mutant of StartCamera: the capture buffer is not reset.
StartCamera_keepsBuffer ==
  /\ view = "HOME"
  /\ acquired + pendingAcq < MaxStreams
  /\ sessionCaptures' = <<>>
  /\ pendingAcq' = pendingAcq + 1
  /\ Render("CAMERA", stream, live)
  /\ alert' = NoAlert
  /\ settled' = NoCall
  /\ UNCHANGED <<loading, loadingMessage, ingredients, newIngredientText,
                 capturedImages, acquired, captureCount, now>>
  /\ UNCHANGED <<recipeVars, gatewayVars, ioVars>>

\* startCamera up to its await, part_000:97-103 (Home: "Escanear Nevera").
StartCamera ==
  /\ view = "HOME"
  /\ acquired + pendingAcq < MaxStreams
  /\ capturedImages' = <<>>
  /\ sessionCaptures' = <<>>
  /\ pendingAcq' = pendingAcq + 1
  /\ Render("CAMERA", stream, live)
  /\ alert' = NoAlert
  /\ settled' = NoCall
  /\ UNCHANGED <<loading, loadingMessage, ingredients, newIngredientText,
                 acquired, captureCount, now>>
  /\ UNCHANGED <<recipeVars, gatewayVars, ioVars>>

\* startCamera after getUserMedia resolved, part_000:104.
GetUserMediaResolved ==
  /\ pendingAcq > 0
  /\ pendingAcq' = pendingAcq - 1
  /\ acquired' = acquired + 1
  /\ Render(view, acquired + 1, live \cup {acquired + 1})
  /\ alert' = NoAlert
  /\ settled' = NoCall
  /\ UNCHANGED <<loading, loadingMessage, ingredients, newIngredientText,
                 capturedImages, captureCount, sessionCaptures, now>>
  /\ UNCHANGED <<recipeVars, gatewayVars, ioVars>>

\* startCamera after getUserMedia rejected, part_000:105-109.
GetUserMediaRejected ==
  /\ pendingAcq > 0
  /\ pendingAcq' = pendingAcq - 1
  /\ Render("HOME", stream, live)
  /\ alert' = CameraAlert
  /\ settled' = NoCall
  /\ UNCHANGED <<loading, loadingMessage, ingredients, newIngredientText,
                 capturedImages, acquired, captureCount, sessionCaptures, now>>
  /\ UNCHANGED <<recipeVars, gatewayVars, ioVars>>

\* The camera decodes a frame into the <video> element.
FrameDecoded ==
  /\ view = "CAMERA"
  /\ videoSrc \in live
  /\ ~hasFrame
  /\ hasFrame' = TRUE
  /\ alert' = NoAlert
  /\ settled' = NoCall
  /\ UNCHANGED <<uiVars, ingredients, newIngredientText, capturedImages,
                 stream, live, acquired, pendingAcq, keyStream, videoSrc,
                 captureCount, sessionCaptures, now>>
  /\ UNCHANGED <<recipeVars, gatewayVars, ioVars>>

\* Mutant of capturePhoto: the new image is put in front of the buffer.
capturePhoto_prepend ==
  /\ view = "CAMERA"
  /\ IF hasFrame
       THEN /\ captureCount < MaxCaptures
            /\ captureCount' = captureCount + 1
            /\ capturedImages' = <<captureCount + 1>> \o capturedImages
            /\ sessionCaptures' = Append(sessionCaptures, captureCount + 1)
       ELSE UNCHANGED <<captureCount, capturedImages, sessionCaptures>>
  /\ alert' = NoAlert
  /\ settled' = NoCall
  /\ UNCHANGED <<uiVars, ingredients, newIngredientText, stream, live,
                 acquired, pendingAcq, keyStream, videoSrc, hasFrame, now>>
  /\ UNCHANGED <<recipeVars, gatewayVars, ioVars>>

\* capturePhoto, part_000:119-138. The refs are set while the Camera view
\* is rendered; the image is named by its capture number.
capturePhoto ==
  /\ view = "CAMERA"
  /\ IF hasFrame
       THEN /\ captureCount < MaxCaptures
            /\ captureCount' = captureCount + 1
            /\ capturedImages' = Append(capturedImages, captureCount + 1)
            /\ sessionCaptures' = Append(sessionCaptures, captureCount + 1)
       ELSE UNCHANGED <<captureCount, capturedImages, sessionCaptures>>
  /\ alert' = NoAlert
  /\ settled' = NoCall
  /\ UNCHANGED <<uiVars, ingredients, newIngredientText, stream, live,
                 acquired, pendingAcq, keyStream, videoSrc, hasFrame, now>>
  /\ UNCHANGED <<recipeVars, gatewayVars, ioVars>>

\* The capture button, part_000:328-334.
CaptureButton == capturePhoto

\* handleKeyDown, Enter, part_000:167-170.
EnterKey == capturePhoto

\* finishCameraSession, part_000:140-147, up to the await in processImages.
FinishCameraSession ==
  /\ view = "CAMERA"
  /\ LET c == stopCamera(stream, stream, live)
     IN IF Len(capturedImages) > 0
          THEN /\ Len(pendingReads) + Len(detectCalls) < MaxIngestions
               /\ processImagesStart(capturedImages, "camera")
               /\ Render(view, c.stream, c.live)
          ELSE /\ Render("HOME", c.stream, c.live)
               /\ UNCHANGED <<loading, loadingMessage, detectCalls>>
  /\ alert' = NoAlert
  /\ settled' = NoCall
  /\ UNCHANGED <<ingredients, newIngredientText, capturedImages, acquired,
                 pendingAcq, captureCount, sessionCaptures, pendingReads, now>>
  /\ UNCHANGED <<recipeVars, gatewayVars>>

\* The done button, rendered while the buffer is non-empty, part_000:338-345.
FinishButton ==
  /\ Len(capturedImages) > 0
  /\ FinishCameraSession

\* The cancel button of the Camera view, part_000:289.
CancelCamera ==
  /\ view = "CAMERA"
  /\ LET c == stopCamera(stream, stream, live)
     IN Render("HOME", c.stream, c.live)
  /\ alert' = NoAlert
  /\ settled' = NoCall
  /\ UNCHANGED <<loading, loadingMessage, ingredients, newIngredientText,
                 capturedImages, acquired, pendingAcq, captureCount,
                 sessionCaptures, now>>
  /\ UNCHANGED <<recipeVars, gatewayVars, ioVars>>

\* stopCamera() called on its own, part_000:112-117, as finish(), the cancel
\* button and the stream effect's cleanup call it; the closure is that of
\* the current render.
StopCamera ==
  /\ LET c == stopCamera(stream, stream, live)
     IN Render(view, c.stream, c.live)
  /\ alert' = NoAlert
  /\ settled' = NoCall
  /\ UNCHANGED <<loading, loadingMessage, ingredients, newIngredientText,
                 capturedImages, acquired, pendingAcq, captureCount,
                 sessionCaptures, now>>
  /\ UNCHANGED <<recipeVars, gatewayVars, ioVars>>

\* Mutant of EscapeKey: leaving the Camera view also drops the detection
\* calls in flight.
EscapeKey_aborts ==
  /\ view = "CAMERA"
  /\ LET c == stopCamera(keyStream, stream, live)
     IN Render("HOME", c.stream, c.live)
  /\ detectCalls' = <<>>
  /\ alert' = NoAlert
  /\ settled' = NoCall
  /\ UNCHANGED <<loading, loadingMessage, ingredients, newIngredientText,
                 capturedImages, acquired, pendingAcq, captureCount,
                 sessionCaptures, pendingReads, now>>
  /\ UNCHANGED <<recipeVars, gatewayVars>>

\* handleKeyDown, Escape, part_000:171-174: the stopCamera of the render
\* that registered the handler.
EscapeKey ==
  /\ view = "CAMERA"
  /\ LET c == stopCamera(keyStream, stream, live)
     IN Render("HOME", c.stream, c.live)
  /\ alert' = NoAlert
  /\ settled' = NoCall
  /\ UNCHANGED <<loading, loadingMessage, ingredients, newIngredientText,
                 capturedImages, acquired, pendingAcq, captureCount,
                 sessionCaptures, now>>
  /\ UNCHANGED <<recipeVars, gatewayVars, ioVars>>

\* ------------------------------------------------------------ navigation
\* Home: "Entrada Manual", part_000:268.
ManualEntry ==
  /\ view = "HOME"
  /\ Render("INGREDIENTS", stream, live)
  /\ alert' = NoAlert
  /\ settled' = NoCall
  /\ UNCHANGED <<loading, loadingMessage, ingredients, newIngredientText,
                 capturedImages, acquired, pendingAcq, captureCount,
                 sessionCaptures, now>>
  /\ UNCHANGED <<recipeVars, gatewayVars, ioVars>>

\* IngredientRoster: back, part_000:357.
IngredientsBack ==
  /\ view = "INGREDIENTS"
  /\ Render("HOME", stream, live)
  /\ alert' = NoAlert
  /\ settled' = NoCall
  /\ UNCHANGED <<loading, loadingMessage, ingredients, newIngredientText,
                 capturedImages, acquired, pendingAcq, captureCount,
                 sessionCaptures, now>>
  /\ UNCHANGED <<recipeVars, gatewayVars, ioVars>>

\* ---------------------------------------------------------------- roster
\* The manual-entry input's onChange, part_000:369.
SetNewIngredientText(text) ==
  /\ view = "INGREDIENTS"
  /\ newIngredientText' = text
  /\ alert' = NoAlert
  /\ settled' = NoCall
  /\ UNCHANGED <<uiVars, ingredients, now>>
  /\ UNCHANGED <<recipeVars, gatewayVars, cameraVars, ioVars>>

\* addManualIngredient, part_000:184-193.
AddManualIngredient ==
  /\ view = "INGREDIENTS"
  /\ IF trim(newIngredientText) = <<>>
       THEN UNCHANGED <<ingredients, newIngredientText>>
       ELSE /\ Len(ingredients) < MaxRoster
            /\ ingredients' = Append(ingredients,
                 [id |-> <<"manual", now>>, name |-> trim(newIngredientText),
                  isPriority |-> FALSE])
            /\ newIngredientText' = <<>>
  /\ alert' = NoAlert
  /\ settled' = NoCall
  /\ UNCHANGED <<uiVars, now>>
  /\ UNCHANGED <<recipeVars, gatewayVars, cameraVars, ioVars>>

\* ingredients.filter(i => i.id !== id)
RECURSIVE filterOut(_, _)
filterOut(s, id) ==
  IF s = <<>> THEN <<>>
  ELSE IF Head(s).id # id THEN <<Head(s)>> \o filterOut(Tail(s), id)
       ELSE filterOut(Tail(s), id)

\* removeIngredient, part_000:195-197 (the trash button of an entry).
RemoveIngredient(id) ==
  /\ view = "INGREDIENTS"
  /\ ingredients' = filterOut(ingredients, id)
  /\ alert' = NoAlert
  /\ settled' = NoCall
  /\ UNCHANGED <<uiVars, newIngredientText, now>>
  /\ UNCHANGED <<recipeVars, gatewayVars, cameraVars, ioVars>>

\* Mutant of togglePriority: the matching entries are marked, not flipped.
togglePriority_marks(s, id) ==
  [k \in 1..Len(s) |->
     IF s[k].id = id THEN [s[k] EXCEPT !.isPriority = TRUE] ELSE s[k]]

\* Mutant of togglePriority: the id is not compared, every entry is flipped.
togglePriority_ignoresId(s, id) ==
  [k \in 1..Len(s) |-> [s[k] EXCEPT !.isPriority = ~s[k].isPriority]]

\* ingredients.map(i => i.id === id ? {...i, isPriority: !i.isPriority} : i)
togglePriority(s, id) ==
  [k \in 1..Len(s) |->
     IF s[k].id = id THEN [s[k] EXCEPT !.isPriority = ~s[k].isPriority]
                     ELSE s[k]]

\* togglePriority, part_000:199-203 (the priority button of an entry).
TogglePriority(id) ==
  /\ view = "INGREDIENTS"
  /\ ingredients' = togglePriority(ingredients, id)
  /\ alert' = NoAlert
  /\ settled' = NoCall
  /\ UNCHANGED <<uiVars, newIngredientText, now>>
  /\ UNCHANGED <<recipeVars, gatewayVars, cameraVars, ioVars>>

\* Date.now() advances.
Tick ==
  /\ now < MaxClock
  /\ now' = now + 1
  /\ alert' = NoAlert
  /\ settled' = NoCall
  /\ UNCHANGED <<uiVars, ingredients, newIngredientText>>
  /\ UNCHANGED <<recipeVars, gatewayVars, cameraVars, ioVars>>

\* --------------------------------------------------------------- recipes
\* The preference buttons of the roster view, part_000:437.
SetDietaryPreference(pref) ==
  /\ view = "INGREDIENTS"
  /\ dietaryPreference' = pref
  /\ alert' = NoAlert
  /\ settled' = NoCall
  /\ UNCHANGED <<uiVars, ingredients, newIngredientText, now>>
  /\ UNCHANGED <<recipes, selectedRecipe, suggestCalls>>
  /\ UNCHANGED <<gatewayVars, cameraVars, ioVars>>

\* Mutant of HandleGenerateRecipes: the roster is not checked.
HandleGenerateRecipes_noValidation ==
  /\ view = "INGREDIENTS"
  /\ suggestCalls < MaxSuggestions
  /\ loading' = TRUE
  /\ loadingMessage' = "Disenando recetas con tus ingredientes..."
  /\ suggestCalls' = suggestCalls + 1
  /\ alert' = NoAlert
  /\ settled' = NoCall
  /\ UNCHANGED <<view, ingredients, newIngredientText, now>>
  /\ UNCHANGED <<recipes, selectedRecipe, dietaryPreference>>
  /\ UNCHANGED <<gatewayVars, cameraVars, ioVars>>

\* handleGenerateRecipes up to its await, part_000:205-216.  The handler
\* checks the roster itself (part_000:206-209), whatever the state of the
\* button that calls it (part_000:451-452).
HandleGenerateRecipes ==
  /\ view = "INGREDIENTS"
  /\ IF Len(ingredients) = 0
       THEN /\ alert' = ValidationAlert
            /\ UNCHANGED <<loading, loadingMessage, suggestCalls>>
       ELSE /\ suggestCalls < MaxSuggestions
            /\ loading' = TRUE
            /\ loadingMessage' = "Disenando recetas con tus ingredientes..."
            /\ suggestCalls' = suggestCalls + 1
            /\ alert' = NoAlert
  /\ settled' = NoCall
  /\ UNCHANGED <<view, ingredients, newIngredientText, now>>
  /\ UNCHANGED <<recipes, selectedRecipe, dietaryPreference>>
  /\ UNCHANGED <<gatewayVars, cameraVars, ioVars>>

\* Mutant of SuggestResolved: a batch that arrives while RecipeDetail is
\* shown replaces the held one without leaving that view.
SuggestResolved_keepsDetail(items) ==
  /\ suggestCalls > 0
  /\ suggestCalls' = suggestCalls - 1
  /\ recipes' = addIds(provider, items, now)
  /\ Render(IF view = "RECIPE_DETAIL" THEN view ELSE "RECIPES", stream, live)
  /\ loading' = FALSE
  /\ alert' = NoAlert
  /\ settled' = NoCall
  /\ UNCHANGED <<loadingMessage, ingredients, newIngredientText, now>>
  /\ UNCHANGED <<selectedRecipe, dietaryPreference>>
  /\ UNCHANGED <<capturedImages, acquired, pendingAcq, captureCount,
                 sessionCaptures, gatewayVars, ioVars>>

\* Mutant of SuggestResolved: the new batch is added to the held one.
SuggestResolved_merges(items) ==
  /\ suggestCalls > 0
  /\ suggestCalls' = suggestCalls - 1
  /\ recipes' = recipes \o addIds(provider, items, now)
  /\ Render("RECIPES", stream, live)
  /\ loading' = FALSE
  /\ alert' = NoAlert
  /\ settled' = NoCall
  /\ UNCHANGED <<loadingMessage, ingredients, newIngredientText, now>>
  /\ UNCHANGED <<selectedRecipe, dietaryPreference>>
  /\ UNCHANGED <<capturedImages, acquired, pendingAcq, captureCount,
                 sessionCaptures, gatewayVars, ioVars>>

\* handleGenerateRecipes after suggestRecipes resolved with the recipes the
\* gateway made of the provider's items, part_000:216-218,221-222.
SuggestResolved(items) ==
  /\ suggestCalls > 0
  /\ suggestCalls' = suggestCalls - 1
  /\ recipes' = addIds(provider, items, now)
  /\ Render("RECIPES", stream, live)
  /\ loading' = FALSE
  /\ alert' = NoAlert
  /\ settled' = NoCall
  /\ UNCHANGED <<loadingMessage, ingredients, newIngredientText, now>>
  /\ UNCHANGED <<selectedRecipe, dietaryPreference>>
  /\ UNCHANGED <<capturedImages, acquired, pendingAcq, captureCount,
                 sessionCaptures, gatewayVars, ioVars>>

\* Mutant of SuggestRejected: the held batch is dropped on failure.
SuggestRejected_clearsBatch ==
  /\ suggestCalls > 0
  /\ suggestCalls' = suggestCalls - 1
  /\ recipes' = <<>>
  /\ loading' = FALSE
  /\ alert' = SuggestionAlert
  /\ settled' = NoCall
  /\ UNCHANGED <<view, loadingMessage, ingredients, newIngredientText, now>>
  /\ UNCHANGED <<selectedRecipe, dietaryPreference>>
  /\ UNCHANGED <<gatewayVars, cameraVars, ioVars>>

\* handleGenerateRecipes after suggestRecipes rejected, part_000:219-222.
SuggestRejected ==
  /\ suggestCalls > 0
  /\ suggestCalls' = suggestCalls - 1
  /\ loading' = FALSE
  /\ alert' = SuggestionAlert
  /\ settled' = NoCall
  /\ UNCHANGED <<view, loadingMessage, ingredients, newIngredientText, now>>
  /\ UNCHANGED <<recipes, selectedRecipe, dietaryPreference>>
  /\ UNCHANGED <<gatewayVars, cameraVars, ioVars>>

\* RecipeList: back, part_000:466.
RecipesBack ==
  /\ view = "RECIPES"
  /\ Render("INGREDIENTS", stream, live)
  /\ alert' = NoAlert
  /\ settled' = NoCall
  /\ UNCHANGED <<loading, loadingMessage, ingredients, newIngredientText,
                 capturedImages, acquired, pendingAcq, captureCount,
                 sessionCaptures, now>>
  /\ UNCHANGED <<recipeVars, gatewayVars, ioVars>>

\* Mutant of SelectRecipe: the first recipe of the list is selected.
SelectRecipe_first(k) ==
  /\ view = "RECIPES"
  /\ k \in 1..Len(recipes)
  /\ selectedRecipe' = recipes[1]
  /\ Render("RECIPE_DETAIL", stream, live)
  /\ alert' = NoAlert
  /\ settled' = NoCall
  /\ UNCHANGED <<loading, loadingMessage, ingredients, newIngredientText,
                 capturedImages, acquired, pendingAcq, captureCount,
                 sessionCaptures, now>>
  /\ UNCHANGED <<recipes, dietaryPreference, suggestCalls>>
  /\ UNCHANGED <<gatewayVars, ioVars>>

\* The onClick of the k-th recipe of the list, part_000:475-482.
SelectRecipe(k) ==
  /\ view = "RECIPES"
  /\ k \in 1..Len(recipes)
  /\ selectedRecipe' = recipes[k]
  /\ Render("RECIPE_DETAIL", stream, live)
  /\ alert' = NoAlert
  /\ settled' = NoCall
  /\ UNCHANGED <<loading, loadingMessage, ingredients, newIngredientText,
                 capturedImages, acquired, pendingAcq, captureCount,
                 sessionCaptures, now>>
  /\ UNCHANGED <<recipes, dietaryPreference, suggestCalls>>
  /\ UNCHANGED <<gatewayVars, ioVars>>

\* RecipeDetail: back, part_000:515-523; the view renders nothing, and so
\* no back button, while no recipe is selected.
RecipeDetailBack ==
  /\ view = "RECIPE_DETAIL"
  /\ selectedRecipe # NoRecipe
  /\ Render("RECIPES", stream, live)
  /\ alert' = NoAlert
  /\ settled' = NoCall
  /\ UNCHANGED <<loading, loadingMessage, ingredients, newIngredientText,
                 capturedImages, acquired, pendingAcq, captureCount,
                 sessionCaptures, now>>
  /\ UNCHANGED <<recipeVars, gatewayVars, ioVars>>

\* ------------------------------------------------------ provider gateway
\* One exchange with the provider, as the gateway sees it.  net: the request
\* got an answer; httpOk: the status is 2xx; envelope: the answer carries the
\* generated text where the provider puts it (data.choices[0].message for
\* OpenAI, response.text for Gemini); parse: the text is absent or empty
\* ("none"), not JSON ("bad") or JSON ("ok").  The JSON value has type t; an
\* object has the one field `key` (or none, key = "") whose value has type
\* ft; items are the elements of the array (the value itself, or that of
\* the field).  Strings and numbers of the responses are truthy.
Response(net, httpOk, envelope, parse, t, key, ft, items) ==
  [net |-> net, httpOk |-> httpOk, envelope |-> envelope, parse |-> parse,
   t |-> t, key |-> key, ft |-> ft, items |-> items]

Json(t, key, ft, items) == Response("ok", TRUE, TRUE, "ok", t, key, ft, items)

\* Array elements: a string (v its text), a number, null, or an object
\* (v its title) carrying all, some or none of the fields of a Recipe.
Str(v)       == [t |-> "str", v |-> v, fields |-> "none"]
Num          == [t |-> "num", v |-> "", fields |-> "none"]
Null         == [t |-> "null", v |-> "", fields |-> "none"]
Obj(v, flds) == [t |-> "obj", v |-> v, fields |-> flds]

\* The exchanges that end without a JSON value, and the JSON values that
\* are no object.
CommonResponses ==
  { Response("fail", FALSE, FALSE, "none", "", "", "", <<>>),
    Response("ok", FALSE, FALSE, "none", "", "", "", <<>>),
    Response("ok", TRUE, FALSE, "none", "", "", "", <<>>),
    Response("ok", TRUE, TRUE, "none", "", "", "", <<>>),
    Response("ok", TRUE, TRUE, "bad", "", "", "", <<>>),
    Json("null", "", "", <<>>),
    Json("str", "", "", <<>>),
    Json("obj", "", "", <<>>) }

\* The lists of names a detection response carries.
NameLists ==
  { <<>>, <<Str("to")>>, <<Str("to"), Str("t")>>, <<Str("to"), Num>> }

\* The lists of recipes a suggestion response carries.
RecipeLists ==
  { <<>>, <<Obj("a", "all")>>, <<Obj("a", "all"), Obj("b", "all")>>,
    <<Obj("a", "some")>>, <<Obj("a", "all"), Null>> }

\* The field `key` of an object, holding a list or something else.
FieldResponses(key, lists) ==
  { Json("obj", key, "arr", l) : l \in lists }
    \cup { Json("obj", key, ft, <<>>) : ft \in {"null", "str", "num", "obj"} }

DetectResponses ==
  CommonResponses \cup FieldResponses("ingredients", NameLists)
    \cup { Json("arr", "", "", <<Str("to")>>) }

SuggestResponses ==
  CommonResponses \cup FieldResponses("recipes", RecipeLists)
    \cup { Json("arr", "", "", l) : l \in RecipeLists }

\* What a call of an async function ends with.
Returned(t, items) ==
  [kind |-> "returned", t |-> t, items |-> items, msg |-> ""]
Thrown(msg) ==
  [kind |-> "thrown", t |-> "", items |-> <<>>, msg |-> msg]

\* The messages of the errors the gateway throws, part_001:181 and 237.
DetectionError  == "No pudimos identificar los ingredientes. Intentalo de nuevo."
SuggestionError == "No pudimos generar recetas en este momento."

\* `c.<key> || []` for the parsed value c, part_001:84, 133, 177.
listField(c, key) ==
  IF c.t = "null" THEN Thrown("TypeError")
  ELSE IF c.t = "obj" /\ c.key = key /\ c.ft # "null"
         THEN Returned(c.ft, c.items)
         ELSE Returned("arr", <<>>)

\* {...r}: the Recipe fields an array element spreads into the new object.
spread(r) ==
  IF r.t = "obj" THEN [title |-> r.v, fields |-> r.fields]
                 ELSE [title |-> "", fields |-> "none"]

\* `l.map((r, index) => ({...r, id: ...}))` for the value l.
mapRecipes(p, l, now0) ==
  IF l.t = "arr"
    THEN Returned("arr",
           addIds(p, [i \in 1..Len(l.items) |-> spread(l.items[i])], now0))
    ELSE Thrown("TypeError")

\* fetch, the status check, response.json() and JSON.parse of the content,
\* part_001:63-83 and part_001:108-130.
openAIContent(r, what) ==
  IF r.net = "fail" THEN Thrown("TypeError: Failed to fetch")
  ELSE IF ~r.httpOk THEN Thrown(what)
  ELSE IF ~r.envelope THEN Thrown("TypeError")
  ELSE IF r.parse # "ok" THEN Thrown("SyntaxError")
  ELSE Returned(r.t, r.items)

\* callOpenAIVision, part_001:43-85.
callOpenAIVision(r) ==
  IF openAIContent(r, "OpenAI Vision Error").kind = "thrown"
    THEN openAIContent(r, "OpenAI Vision Error")
    ELSE listField(r, "ingredients")

\* callOpenAIText, part_001:87-137.
callOpenAIText(r, now0) ==
  IF openAIContent(r, "OpenAI API Error").kind = "thrown"
    THEN openAIContent(r, "OpenAI API Error")
    ELSE IF listField(r, "recipes").kind = "thrown"
           THEN listField(r, "recipes")
           ELSE mapRecipes("openai", listField(r, "recipes"), now0)

\* ai.models.generateContent and JSON.parse of its text throw, part_001:159,
\* 176, 218, 228: no answer, a non-2xx status, or a text that is not JSON.
geminiThrows(r) ==
  r.net = "fail" \/ ~r.httpOk \/ (r.envelope /\ r.parse = "bad")

\* JSON.parse(response.text || dflt), part_001:176 and 228; response.text is
\* undefined when the answer carries no text.
geminiParsed(r, dflt) ==
  IF ~r.envelope \/ r.parse = "none" THEN dflt ELSE r

\* detectIngredientsFromImages, part_001:145-183.
detectIngredientsFromImages(p, r) ==
  LET out == IF p = "openai" THEN callOpenAIVision(r)
             ELSE IF geminiThrows(r) THEN Thrown("Error")
             ELSE listField(geminiParsed(r, Json("obj", "ingredients",
                                                  "arr", <<>>)),
                            "ingredients")
  IN IF out.kind = "thrown" THEN Thrown(DetectionError) ELSE out

\* suggestRecipes, part_001:189-239.
suggestRecipes(p, r, now0) ==
  LET raw == geminiParsed(r, Json("arr", "", "", <<>>))
      out == IF p = "openai" THEN callOpenAIText(r, now0)
             ELSE IF geminiThrows(r) THEN Thrown("Error")
             ELSE mapRecipes("gemini", raw, now0)
  IN IF out.kind = "thrown" THEN Thrown(SuggestionError) ELSE out

\* A call of detectIngredientsFromImages that the provider answers with r.
DetectCall(r) ==
  /\ gw' = [op |-> "detect", response |-> r, at |-> now,
            outcome |-> detectIngredientsFromImages(provider, r)]
  /\ alert' = NoAlert
  /\ settled' = NoCall
  /\ UNCHANGED <<uiVars, ingredients, newIngredientText, now, provider>>
  /\ UNCHANGED <<recipeVars, cameraVars, ioVars>>

\* A call of suggestRecipes that the provider answers with r.
SuggestCall(r) ==
  /\ gw' = [op |-> "suggest", response |-> r, at |-> now,
            outcome |-> suggestRecipes(provider, r, now)]
  /\ alert' = NoAlert
  /\ settled' = NoCall
  /\ UNCHANGED <<uiVars, ingredients, newIngredientText, now, provider>>
  /\ UNCHANGED <<recipeVars, cameraVars, ioVars>>

\* ------------------------------------------------------- specifications
RosterIds == {ingredients[k].id : k \in 1..Len(ingredients)}

\* Camera sessions and image ingestion (file upload or finish()).
NextCamera ==
  \/ \E f \in Files \cup {NoFile} : HandleFileUpload(f)
  \/ \E i \in 1..MaxIngestions : FileReadLoaded(i)
  \/ \E i \in 1..MaxIngestions : FileReadFailed(i)
  \/ \E i \in 1..MaxIngestions, names \in DetectedNames :
       ProcessImagesResolved(i, names)
  \/ \E i \in 1..MaxIngestions : ProcessImagesRejected(i)
  \/ StartCamera
  \/ GetUserMediaResolved
  \/ GetUserMediaRejected
  \/ FrameDecoded
  \/ CaptureButton
  \/ EnterKey
  \/ FinishButton
  \/ CancelCamera
  \/ EscapeKey
  \/ ManualEntry
  \/ IngredientsBack

Spec == Init /\ [][NextCamera]_vars

\* Image ingestion from file upload and the roster's editing operations.
NextRoster ==
  \/ \E f \in Files \cup {NoFile} : HandleFileUpload(f)
  \/ \E i \in 1..MaxIngestions : FileReadLoaded(i)
  \/ \E i \in 1..MaxIngestions : FileReadFailed(i)
  \/ \E i \in 1..MaxIngestions, names \in DetectedNames :
       ProcessImagesResolved(i, names)
  \/ \E i \in 1..MaxIngestions : ProcessImagesRejected(i)
  \/ ManualEntry
  \/ IngredientsBack
  \/ \E t \in Texts : SetNewIngredientText(t)
  \/ AddManualIngredient
  \/ \E id \in RosterIds : RemoveIngredient(id)
  \/ \E id \in RosterIds : TogglePriority(id)
  \/ Tick

SpecRoster == Init /\ [][NextRoster]_vars

\* The operations called as functions, with any argument: finish() whatever
\* the buffer holds, stop() whatever the handle, remove and togglePriority
\* with any id.
NextOps ==
  \/ StartCamera
  \/ GetUserMediaResolved
  \/ GetUserMediaRejected
  \/ FrameDecoded
  \/ capturePhoto
  \/ FinishCameraSession
  \/ StopCamera
  \/ CancelCamera
  \/ \E i \in 1..MaxIngestions, names \in DetectedNames :
       ProcessImagesResolved(i, names)
  \/ \E i \in 1..MaxIngestions : ProcessImagesRejected(i)
  \/ IngredientsBack
  \/ \E id \in RosterIds \cup {NoSuchId} : RemoveIngredient(id)
  \/ \E id \in RosterIds \cup {NoSuchId} : TogglePriority(id)

SpecOps == Init /\ [][NextOps]_vars

\* The provider gateway on its own: calls answered in every way, under
\* either provider.
NextGateway ==
  \/ \E r \in DetectResponses : DetectCall(r)
  \/ \E r \in SuggestResponses : SuggestCall(r)
  \/ Tick

SpecGateway == InitAnyProvider /\ [][NextGateway]_vars

\* The roster's manual entry, the recipe request and the recipe views.
NextRecipes ==
  \/ ManualEntry
  \/ IngredientsBack
  \/ \E t \in Texts : SetNewIngredientText(t)
  \/ AddManualIngredient
  \/ \E id \in RosterIds : RemoveIngredient(id)
  \/ \E pref \in Preferences : SetDietaryPreference(pref)
  \/ HandleGenerateRecipes
  \/ \E items \in RecipeBatches : SuggestResolved(items)
  \/ SuggestRejected
  \/ RecipesBack
  \/ \E k \in DOMAIN recipes : SelectRecipe(k)
  \/ RecipeDetailBack
  \/ Tick

SpecRecipes == InitAnyProvider /\ [][NextRecipes]_vars

\* Ingestions and recipe requests triggered one over the other: the roster
\* and the batch change by the calls' completions alone.
NextOverlap ==
  \/ \E f \in Files \cup {NoFile} : HandleFileUpload(f)
  \/ \E i \in 1..MaxIngestions : FileReadLoaded(i)
  \/ \E i \in 1..MaxIngestions : FileReadFailed(i)
  \/ \E i \in 1..MaxIngestions, names \in DetectedNames :
       ProcessImagesResolved(i, names)
  \/ \E i \in 1..MaxIngestions : ProcessImagesRejected(i)
  \/ ManualEntry
  \/ IngredientsBack
  \/ HandleGenerateRecipes
  \/ \E items \in RecipeBatches : SuggestResolved(items)
  \/ SuggestRejected
  \/ RecipesBack
  \/ Tick

SpecOverlap == Init /\ [][NextOverlap]_vars

\* ================================================================ claims

\* C1 (as claimed): in the state reached by the cancel button, the Escape
\* key or finish(), no acquired stream has a live track and the device
\* handle is cleared.
C1_LeavingStopsCamera ==
  [][(CancelCamera \/ EscapeKey \/ FinishCameraSession) =>
       (live' = {} /\ stream' = NoStream)]_vars

\* C2 (as claimed): at most one acquired stream has live tracks in every
\* state, and when start() issues its acquisition request every stream
\* acquired before has been released.
C2_OneSessionHoldsCamera ==
  /\ [](Cardinality(live) <= 1)
  /\ [][StartCamera => live = {}]_vars

\* C3: a successful detection with names n1..nk leaves the roster as it was,
\* followed by k entries, the i-th named ni with its first character
\* upper-cased and not a priority, and the view is IngredientRoster.
C3_DetectionAppends ==
  [][\A c \in 1..MaxIngestions, names \in DetectedNames :
       ProcessImagesResolved(c, names) =>
         LET n == Len(ingredients)
         IN /\ Len(ingredients') = n + Len(names)
            /\ SubSeq(ingredients', 1, n) = ingredients
            /\ \A i \in 1..Len(names) :
                 /\ ingredients'[n + i].isPriority = FALSE
                 /\ ingredients'[n + i].name =
                      IF names[i] = <<>> THEN <<>>
                      ELSE <<Upper[names[i][1]]>> \o Tail(names[i])
            /\ view' = "INGREDIENTS"]_vars

C3_Witness ==
  /\ settled = "file"
  /\ alert = NoAlert
  /\ view = "INGREDIENTS"
  /\ Len(ingredients) >= 2
  /\ ingredients[1].id[1] = "manual"
  /\ ingredients[1].isPriority
  /\ ingredients[Len(ingredients)].id[1] = "ing"
  /\ ingredients[Len(ingredients)].name = <<"T", "o">>

\* C4: a failed detection surfaces exactly one message, clears the loading
\* flag and changes neither roster nor view; nor does the start of the
\* ingest (file chosen, file read, finish() with captures).
C4_DetectionFailure ==
  [][/\ \A c \in 1..MaxIngestions :
          ProcessImagesRejected(c) =>
            /\ alert' = DetectionAlert
            /\ ingredients' = ingredients
            /\ view' = view
            /\ loading' = FALSE
     /\ ((\E f \in Files : HandleFileUpload(f))
           \/ (\E c \in 1..MaxIngestions : FileReadLoaded(c))
           \/ FinishButton) =>
            /\ alert' = NoAlert
            /\ ingredients' = ingredients
            /\ view' = view]_vars

C4_Witness ==
  /\ settled = "camera"
  /\ alert = DetectionAlert
  /\ view = "CAMERA"
  /\ ingredients # <<>>
  /\ ~loading

\* C5 (as claimed): once the file read and the detection call of every
\* ingestion have completed the loading flag is clear, and a failed file
\* read surfaces a message.
C5_LoadingCleared ==
  /\ []((pendingReads = <<>> /\ detectCalls = <<>>) => ~loading)
  /\ [][\A c \in 1..MaxIngestions :
          FileReadFailed(c) => alert' # NoAlert]_vars

\* C6 (as claimed): no two roster entries share an id, whatever the clock
\* readings at which they were created.
C6_UniqueIds ==
  \A i, j \in 1..Len(ingredients) :
    i # j => ingredients[i].id # ingredients[j].id

\* C7: finish() with a non-empty buffer submits to detection exactly the
\* successful captures made since the session started, in capture order.
C7_FinishSubmitsCaptures ==
  [][FinishButton =>
       detectCalls' = Append(detectCalls,
                        [images |-> sessionCaptures, from |-> "camera"])]_vars

C7_Witness ==
  /\ detectCalls # <<>>
  /\ detectCalls[Len(detectCalls)].from = "camera"
  /\ Len(detectCalls[Len(detectCalls)].images) >= 2
  /\ detectCalls[Len(detectCalls)].images[1] <
       detectCalls[Len(detectCalls)].images[2]

\* C8: start scan leaves the capture buffer empty, whatever the previous
\* session left in it, and it stays empty until the session's first capture.
C8_BufferEmptyAtStart ==
  /\ [][StartCamera => capturedImages' = <<>>]_vars
  /\ []((view = "CAMERA" /\ sessionCaptures = <<>>) => capturedImages = <<>>)

C8_Witness ==
  /\ view = "CAMERA"
  /\ pendingAcq > 0
  /\ stream = NoStream
  /\ captureCount > 0
  /\ capturedImages = <<>>

\* C9 (as claimed): after finish() with a non-empty buffer whose ingestion
\* succeeded, the capture buffer is empty.
C9_BufferClearedOnHandOff ==
  [][\A c \in 1..MaxIngestions, names \in DetectedNames :
       (ProcessImagesResolved(c, names) /\ detectCalls[c].from = "camera") =>
         capturedImages' = <<>>]_vars

\* C9 (amended): neither finish() nor the completion of an ingestion
\* changes the capture buffer; only start scan empties it.
C9_BufferKeptOnHandOff ==
  [][/\ (FinishCameraSession
           \/ (\E c \in 1..MaxIngestions, names \in DetectedNames :
                 ProcessImagesResolved(c, names))
           \/ (\E c \in 1..MaxIngestions : ProcessImagesRejected(c))) =>
          capturedImages' = capturedImages
     /\ (capturedImages # <<>> /\ capturedImages' = <<>>) =>
          StartCamera]_vars

C9_Witness ==
  /\ settled = "camera"
  /\ alert = NoAlert
  /\ view = "INGREDIENTS"
  /\ capturedImages # <<>>

\* C10 (as claimed): a failed acquisition surfaces a message, the view
\* becomes Home with no device handle bound, and only start scan issues an
\* acquisition request.
C10_AcquisitionFailure ==
  [][/\ GetUserMediaRejected =>
          /\ alert' = CameraAlert
          /\ view' = "HOME"
          /\ stream' = NoStream
     /\ pendingAcq' > pendingAcq => StartCamera]_vars

\* C11: requestRecipes() on an empty roster issues no suggestRecipes call,
\* shows the validation message, leaves the loading flag and its message
\* alone, and leaves the view (the roster view), the held batch and the
\* selected recipe as they were.
C11_EmptyRosterRejected ==
  [][(HandleGenerateRecipes /\ Len(ingredients) = 0) =>
       /\ suggestCalls' = suggestCalls
       /\ alert' = ValidationAlert
       /\ loading' = loading /\ loadingMessage' = loadingMessage
       /\ view = "INGREDIENTS" /\ view' = view
       /\ recipes' = recipes
       /\ selectedRecipe' = selectedRecipe]_vars

\* The validation message is up over an empty roster while a batch and a
\* selected recipe are held and nothing is loading.
C11_Witness ==
  /\ alert = ValidationAlert
  /\ ingredients = <<>>
  /\ view = "INGREDIENTS"
  /\ recipes # <<>>
  /\ selectedRecipe # NoRecipe
  /\ suggestCalls = 0
  /\ ~loading

\* C12: when a recipe request succeeds, the held batch is exactly the batch
\* the gateway returned, the view is the recipe list, the roster is as it
\* was and the loading flag is false.
C12_BatchReplaced ==
  [][\A items \in RecipeBatches :
       SuggestResolved(items) =>
         /\ recipes' = addIds(provider, items, now)
         /\ view' = "RECIPES"
         /\ ingredients' = ingredients
         /\ loading' = FALSE]_vars

\* The recipe list shows a one-recipe batch that does not hold the recipe
\* selected from an earlier batch.
C12_Witness ==
  /\ view = "RECIPES"
  /\ ~loading
  /\ ingredients # <<>>
  /\ Len(recipes) = 1
  /\ selectedRecipe # NoRecipe
  /\ selectedRecipe.title # recipes[1].title

\* C13: when a recipe request fails, the suggestion error message is shown,
\* the held batch, the selected recipe, the roster, the dietary preference
\* and the view are as they were, and the loading flag is false.
C13_SuggestionFailure ==
  [][SuggestRejected =>
       /\ alert' = SuggestionAlert
       /\ recipes' = recipes
       /\ selectedRecipe' = selectedRecipe
       /\ ingredients' = ingredients
       /\ dietaryPreference' = dietaryPreference
       /\ view' = view
       /\ loading' = FALSE]_vars

\* The suggestion error is up while a batch, a selected recipe, a roster
\* and a dietary preference are held.
C13_Witness ==
  /\ alert = SuggestionAlert
  /\ recipes # <<>>
  /\ selectedRecipe # NoRecipe
  /\ ingredients # <<>>
  /\ dietaryPreference = "Vegano"
  /\ ~loading

\* The edges of the view transition table.
TableEdges ==
  { <<"HOME", "CAMERA">>, <<"HOME", "INGREDIENTS">>,
    <<"CAMERA", "HOME">>, <<"CAMERA", "INGREDIENTS">>,
    <<"INGREDIENTS", "HOME">>, <<"INGREDIENTS", "RECIPES">>,
    <<"RECIPES", "INGREDIENTS">>, <<"RECIPES", "RECIPE_DETAIL">>,
    <<"RECIPE_DETAIL", "RECIPES">> }

\* C14 (as claimed): the view starts at Home and every change of view,
\* those made by asynchronous completions included, follows an edge of the
\* transition table.
C14_ViewFollowsTable ==
  /\ view = "HOME"
  /\ [][view' # view => <<view, view'>> \in TableEdges]_vars

\* C18: selecting the k-th recipe of the list makes exactly that recipe the
\* selected one and shows the detail view, and going back shows the recipe
\* list; neither step changes the held batch.
C18_SelectAndBack ==
  [][/\ \A k \in DOMAIN recipes :
          SelectRecipe(k) => /\ selectedRecipe' = recipes[k]
                             /\ view' = "RECIPE_DETAIL"
                             /\ recipes' = recipes
     /\ RecipeDetailBack => /\ view' = "RECIPES"
                            /\ recipes' = recipes]_vars

\* Back on the recipe list after the second recipe of a batch of two was
\* selected.
C18_Witness ==
  /\ view = "RECIPES"
  /\ Len(recipes) = 2
  /\ selectedRecipe = recipes[2]
  /\ selectedRecipe # recipes[1]

\* C15: stop() while no device handle is bound (a second stop() after a
\* first, for one), and remove(id) and togglePriority(id) with an id no
\* roster entry has, leave the device handle, the live tracks, the roster,
\* the view and the capture buffer as they were and raise no alert.
C15_NoOpCalls ==
  [][/\ (StopCamera /\ stream = NoStream) =>
          /\ UNCHANGED <<stream, live, ingredients, view, capturedImages>>
          /\ alert' = NoAlert
     /\ \A id \in (RosterIds \cup {NoSuchId}) \ RosterIds :
          (RemoveIngredient(id) \/ TogglePriority(id)) =>
            /\ UNCHANGED <<stream, live, ingredients, view, capturedImages>>
            /\ alert' = NoAlert]_vars

\* The roster view with two entries, a filled buffer and no device handle
\* bound: stop(), remove(NoSuchId) and togglePriority(NoSuchId) can all
\* be called here, and lead here.
C15_Witness ==
  /\ view = "INGREDIENTS"
  /\ Len(ingredients) = 2
  /\ NoSuchId \notin RosterIds
  /\ capturedImages # <<>>
  /\ stream = NoStream
  /\ ENABLED StopCamera
  /\ ENABLED RemoveIngredient(NoSuchId)
  /\ ENABLED TogglePriority(NoSuchId)
  /\ alert = NoAlert

\* C16: toggling the priority of an id twice gives back the roster as it
\* was, entry by entry; one toggle keeps every entry's position, id and
\* name, flips isPriority of the entries with that id and changes no other
\* entry.
C16_ToggleRoundTrip ==
  /\ [](\A id \in RosterIds \cup {NoSuchId} :
          togglePriority(togglePriority(ingredients, id), id) = ingredients)
  /\ [][\A id \in RosterIds \cup {NoSuchId} :
          TogglePriority(id) =>
            /\ Len(ingredients') = Len(ingredients)
            /\ \A k \in DOMAIN ingredients :
                 /\ ingredients'[k].id = ingredients[k].id
                 /\ ingredients'[k].name = ingredients[k].name
                 /\ ingredients'[k].isPriority =
                      IF ingredients[k].id = id
                        THEN ~ingredients[k].isPriority
                        ELSE ingredients[k].isPriority]_vars

\* A roster of two entries with different ids, one of them toggled to
\* priority.
C16_Witness ==
  /\ Len(ingredients) = 2
  /\ ingredients[1].id # ingredients[2].id
  /\ ingredients[1].isPriority
  /\ ~ingredients[2].isPriority

\* C17 (as claimed): addManual leaves the roster alone when the typed name
\* is empty after trimming; otherwise the roster grows by one entry at its
\* end, with the trimmed name, isPriority false and an id no entry of the
\* roster had, and the entries before it are as they were.
C17_AddManualAppendsFresh ==
  [][AddManualIngredient =>
       IF trim(newIngredientText) = <<>>
         THEN ingredients' = ingredients
         ELSE /\ Len(ingredients') = Len(ingredients) + 1
              /\ SubSeq(ingredients', 1, Len(ingredients)) = ingredients
              /\ ingredients'[Len(ingredients')].name = trim(newIngredientText)
              /\ ingredients'[Len(ingredients')].isPriority = FALSE
              /\ ingredients'[Len(ingredients')].id \notin RosterIds]_vars

\* C19 (as claimed): finish() on an empty capture buffer leaves no live
\* camera track and no bound handle, shows Home, issues no detection call,
\* leaves the loading flag alone and leaves the roster as it was.
C19_FinishEmptyGoesHome ==
  [][(FinishCameraSession /\ capturedImages = <<>>) =>
       /\ live' = {} /\ stream' = NoStream
       /\ view' = "HOME"
       /\ detectCalls' = detectCalls
       /\ loading' = loading
       /\ ingredients' = ingredients]_vars

\* A returned value is a complete result: an array of strings for
\* detectIngredients, an array of objects with every Recipe field for
\* suggestRecipes.
CompleteNames(o) ==
  /\ o.kind = "returned"
  /\ o.t = "arr"
  /\ \A i \in DOMAIN o.items : o.items[i].t = "str"
CompleteRecipes(o) ==
  /\ o.kind = "returned"
  /\ o.t = "arr"
  /\ \A i \in DOMAIN o.items : o.items[i].fields = "all"

\* C20 (as claimed): whatever the provider and its answer, a gateway call
\* ends in one of two ways: it throws the operation's one normalized error,
\* or it returns a complete result (never a value of another shape, never
\* a list with incomplete elements).
C20_TwoOutcomes ==
  /\ gw.op = "detect" =>
       \/ gw.outcome.kind = "thrown" /\ gw.outcome.msg = DetectionError
       \/ CompleteNames(gw.outcome)
  /\ gw.op = "suggest" =>
       \/ gw.outcome.kind = "thrown" /\ gw.outcome.msg = SuggestionError
       \/ CompleteRecipes(gw.outcome)

\* The provider outcomes C21 lists, for the list field `key`: no answer,
\* a text that is not JSON, an empty text, an object without the list field
\* or with the field null, and a list of complete elements delivered as a
\* bare array or as the list field of an object.
ListedOutcome(r, key) ==
  \/ r.net = "fail"
  \/ r.net = "ok" /\ r.httpOk /\ r.envelope /\ r.parse \in {"bad", "none"}
  \/ /\ r.parse = "ok"
     /\ \/ r.t = "obj" /\ r.key = ""
        \/ r.t = "obj" /\ r.key = key /\ r.ft = "null"
        \/ /\ r.t = "arr" \/ (r.t = "obj" /\ r.key = key /\ r.ft = "arr")
           /\ \A i \in DOMAIN r.items :
                r.items[i].t = "str" \/ r.items[i].fields = "all"

\* What the caller can tell of an outcome: the failure and its message, or
\* success and the length of the sequence.
Observable(o) ==
  IF o.kind = "thrown" THEN [ok |-> FALSE, len |-> 0, msg |-> o.msg]
                       ELSE [ok |-> TRUE, len |-> Len(o.items), msg |-> ""]

\* C21 (as claimed): for every listed provider outcome, a gateway operation
\* ends the same way (the normalized failure, or success with a sequence of
\* the same length) under OpenAI as under Gemini.
C21_ProvidersEquivalent ==
  /\ (gw.op = "detect" /\ ListedOutcome(gw.response, "ingredients")) =>
       Observable(detectIngredientsFromImages("openai", gw.response))
         = Observable(detectIngredientsFromImages("gemini", gw.response))
  /\ (gw.op = "suggest" /\ ListedOutcome(gw.response, "recipes")) =>
       Observable(suggestRecipes("openai", gw.response, gw.at))
         = Observable(suggestRecipes("gemini", gw.response, gw.at))

\* C22 (as claimed): while a detection call or a suggestion call is in
\* flight the loading flag is true.
C22_LoadingWhileInFlight ==
  (detectCalls # <<>> \/ suggestCalls > 0) => loading

\* C25 (as claimed): a stream is bound as the device handle, or has live
\* tracks, only while the view is Camera.
C25_HandleOnlyInCamera ==
  (stream # NoStream \/ live # {}) => view = "CAMERA"

\* C26 (as claimed): capture() leaves view, roster, device handle and
\* loading flag alone and raises no alert; with the device handle active
\* and a decoded frame it appends one image at the end of the buffer, and
\* otherwise it leaves the buffer as it was.
C26_CaptureFrame ==
  [][capturePhoto =>
       /\ UNCHANGED <<view, ingredients, stream, live, loading>>
       /\ alert' = NoAlert
       /\ IF stream # NoStream /\ stream \in live /\ hasFrame
            THEN /\ Len(capturedImages') = Len(capturedImages) + 1
                 /\ SubSeq(capturedImages', 1, Len(capturedImages))
                      = capturedImages
            ELSE capturedImages' = capturedImages]_vars

\* C24: Escape does not abort an ingestion issued by finish(). Pressing
\* Escape while such a call is in flight shows Home and leaves every call
\* in flight and the roster as they were; when the call then resolves at
\* Home, one batch of names is appended to the roster and the view becomes
\* IngredientRoster; when it rejects, the roster is unchanged and the view
\* stays Home.
C24_EscapeDoesNotAbort ==
  [][/\ (EscapeKey /\ \E i \in DOMAIN detectCalls :
                        detectCalls[i].from = "camera") =>
          /\ view' = "HOME"
          /\ detectCalls' = detectCalls
          /\ ingredients' = ingredients
     /\ (view = "HOME" /\ settled' = "camera" /\ alert' = NoAlert) =>
          /\ view' = "INGREDIENTS"
          /\ Len(detectCalls') = Len(detectCalls) - 1
          /\ \E names \in DetectedNames :
               ingredients' = ingredients \o newIngredients(names, now)
     /\ (view = "HOME" /\ settled' = "camera" /\ alert' = DetectionAlert) =>
          /\ view' = "HOME"
          /\ Len(detectCalls') = Len(detectCalls) - 1
          /\ ingredients' = ingredients]_vars

\* Home is shown while a call issued by finish() is in flight.
C24_Witness ==
  /\ view = "HOME"
  /\ loading
  /\ \E i \in DOMAIN detectCalls : detectCalls[i].from = "camera"

\* C27: whenever the view is RecipeDetail, a recipe is selected and it is
\* one of the recipes of the batch held at that moment.
C27_DetailShowsHeldRecipe ==
  view = "RECIPE_DETAIL" =>
    /\ selectedRecipe # NoRecipe
    /\ \E k \in DOMAIN recipes : recipes[k] = selectedRecipe

\* RecipeDetail is shown while a later recipe request is still in flight.
C27_Witness ==
  /\ view = "RECIPE_DETAIL"
  /\ selectedRecipe # NoRecipe
  /\ suggestCalls > 0

\* C23: calls triggered while another is in flight do not corrupt the
\* state. In every step of every interleaving, a detection call that
\* resolves leaves the roster as it was followed by the entries of its
\* batch, and nothing else changes the roster; a recipe request that
\* resolves makes the held batch the whole batch of that response, and
\* nothing else changes it. So the held batch is always the batch of one
\* response, and the final roster holds every earlier entry, unaltered,
\* and every batch detected.
C23_OverlapKeepsState ==
  /\ [](\E items \in RecipeBatches, t \in 0..MaxClock :
          recipes = addIds(provider, items, t))
  /\ [][/\ \A i \in 1..MaxIngestions, names \in DetectedNames :
            ProcessImagesResolved(i, names) =>
              ingredients' = ingredients \o newIngredients(names, now)
        /\ ingredients' # ingredients =>
              /\ settled' # NoCall
              /\ alert' = NoAlert
              /\ Len(detectCalls') = Len(detectCalls) - 1
              /\ SubSeq(ingredients', 1, Len(ingredients)) = ingredients
        /\ \A items \in RecipeBatches :
            SuggestResolved(items) =>
              recipes' = addIds(provider, items, now)
        /\ recipes' # recipes =>
              /\ suggestCalls' = suggestCalls - 1
              /\ alert' = NoAlert]_vars

\* One of two overlapping calls has completed and cleared the loading
\* flag, a detection call is still in flight, and the roster holds a
\* detected entry.
C23_Witness ==
  /\ ~loading
  /\ Len(detectCalls) = 1
  /\ Len(ingredients) >= 1

====
